---- MODULE Spec2Model ----
(***************************************************************************)
(* Model of final_trace_ai_redcap_api_script.py: the two Flask handlers    *)
(* transfer_data (GET /transfer) and trigger_email (POST /trigger-email),  *)
(* and the REDCap record API they call with requests.post.                 *)
(*                                                                         *)
(* Values are JSON scalars encoded as strings; Python's None / JSON null   *)
(* is the reserved string None.  A dict is a function whose DOMAIN is its  *)
(* set of keys.  A REDCap project is a function from the ids of its        *)
(* records to dicts.                                                       *)
(***************************************************************************)
EXTENDS Naturals, Sequences, FiniteSets, TLC

\* ------------------------------------------------------------------ bounds

\* Number of handler invocations in one behaviour.
MaxCalls == 2

\* Flask request threads that may run handlers at the same time.
Procs == {"w1", "w2"}

\* ------------------------------------------------------------- configuration

API_TOKEN_A == "REDCAP_TOKEN_NON_CONSENT_Database"
API_TOKEN_B == "REDCAP_TOKEN_CONSENT_Database"
Tokens == {API_TOKEN_A, API_TOKEN_B}

\* ------------------------------------------------------------------ values

None == "<None>"
EmptyDict == [k \in {} |-> None]

\* dict.get(k): None when the key is missing.
Get(d, k) == IF k \in DOMAIN d THEN d[k] ELSE None

\* dict.get(k, default)
GetDefault(d, k, default) == IF k \in DOMAIN d THEN d[k] ELSE default

\* Python str() on a JSON scalar: a string is itself, None becomes 'None'.
str(v) == IF v = None THEN "None" ELSE v

\* Mutant: the check `record_id is None`, which lets the empty id through.
Falsy_NoneOnly(v) == v = None

\* `not record_id`: None and the empty string are falsy.
Falsy(v) == v = None \/ v = ""

\* --------------------------------------------------------- the record store

RecordIds == {"42", "99"}
RecordOrder == <<"42", "99">>

\* What request.args.get('record') / request.form.get('rec_id') can yield.
RequestIds == RecordIds \cup {None, ""}

\* REDCap treats an empty string and a JSON null as a blank value.
Blank(v) == v = "" \/ v = None

\* Record export (content=record, format=json, records[0]=rid).  requests
\* drops a parameter whose value is None, and an export without a record
\* filter returns every record of the project.
Export(project, rid) ==
    IF rid = None
    THEN SelectSeq(RecordOrder, LAMBDA r : r \in DOMAIN project)
    ELSE IF rid \in DOMAIN project THEN <<rid>> ELSE <<>>

ExportRecords(project, rid) ==
    LET ids == Export(project, rid)
    IN  [i \in 1..Len(ids) |-> project[ids[i]]]

\* Record import.  With overwriteBehavior=normal (also the API's default)
\* blank values of the payload are ignored; with overwrite they erase.  The
\* fields that are not in the payload are left alone either way.
ImportRecord(project, rec, overwriteBehavior) ==
    LET rid  == rec["record_id"]
        old  == IF rid \in DOMAIN project THEN project[rid]
                ELSE [k \in {"record_id"} |-> rid]
        set  == {k \in DOMAIN rec :
                    overwriteBehavior = "overwrite" \/ ~Blank(rec[k])}
        new  == [k \in (DOMAIN old) \cup set |->
                    IF k \in set
                    THEN (IF rec[k] = None THEN "" ELSE rec[k])
                    ELSE old[k]]
    IN  [r \in (DOMAIN project) \cup {rid} |->
            IF r = rid THEN new ELSE project[r]]

\* An import needs a record id to file the data under.
Importable(rec) == "record_id" \in DOMAIN rec /\ ~Blank(rec["record_id"])

\* What a read can come back as: requests.post raises, the body is not
\* JSON, the body is a JSON error object, or the body is the record list.
ReadOutcomes == {"raise", "notjson", "errobject", "ok"}

\* What a write can come back as: requests.post raises, or a status code.
WriteOutcomes == {"raise", "200", "400"}

\* ------------------------------------------------------------ initial data

Absent == "<absent>"

\* A record of Project A: the allow-listed fields, the consent choice and,
\* possibly, screening data that must stay in Project A.
SourceRecord(rid, email, consent, screening) ==
    LET keys == {"record_id", "pt_phone", "res_email", "elig_date"}
                \cup (IF email = Absent THEN {} ELSE {"pt_email"})
                \cup (IF consent = Absent THEN {} ELSE {"interested_consent"})
                \cup (IF screening THEN {"dob"} ELSE {})
    IN  [k \in keys |->
            CASE k = "record_id" -> rid
              [] k = "pt_email" -> email
              [] k = "pt_phone" -> "203-555-0100"
              [] k = "res_email" -> "staff@yale.edu"
              [] k = "elig_date" -> "2025-01-31"
              [] k = "interested_consent" -> consent
              [] k = "dob" -> "1960-02-03"]

\* The records Project A may hold under an id: each consent choice, and
\* for the electronic choice each state of the e-mail field; the record
\* without an e-mail is the one that carries no screening data either.
SourceRecords(rid) ==
    {SourceRecord(rid, ec[1], ec[2], ec[1] # Absent) :
        ec \in {<<"pt@mail.org", "1">>, <<"", "1">>, <<Absent, "1">>,
                <<"pt@mail.org", "2">>, <<"pt@mail.org", "3">>,
                <<"", "">>, <<Absent, Absent>>}}

NoRecords == [r \in {} |-> EmptyDict]

\* Project A holds record 42 or not; it never holds record 99.
SourceProjects ==
    {NoRecords} \cup {[r \in {"42"} |-> rec] : rec \in SourceRecords("42")}

\* A record Project B already holds before the first request.
TargetRecord(rid, consent) ==
    LET keys == {"record_id", "pt_email", "trigger_email", "cons_in_person_email"}
                \cup (IF consent = Absent THEN {} ELSE {"interested_consent"})
    IN  [k \in keys |->
            CASE k = "record_id" -> rid
              [] k = "pt_email" -> "old@mail.org"
              [] k = "interested_consent" -> consent
              [] OTHER -> ""]

TargetProjects ==
    {NoRecords,
     [r \in {"42", "99"} |-> TargetRecord(r, IF r = "42" THEN Absent ELSE "3")],
     [r \in {"42", "99"} |-> TargetRecord(r, IF r = "42" THEN "1" ELSE "2")]}

\* ------------------------------------------------------------------- state

VARIABLES
    store,             \* store[token]: the REDCap project the token opens
    pc,                \* pc[p]: where request thread p is in its handler
    record_id,         \* record_id[p]
    consent_choice,    \* consent_choice[p] of transfer_data
    clean_data_for_b,  \* clean_data_for_b[p] of transfer_data
    choice,            \* choice[p] of trigger_email
    trigger_payload,   \* trigger_payload[p] of trigger_email
    calls,             \* calls[p]: the remote calls of p's invocation so far
    log                \* the finished invocations, in order of completion

vars == <<store, pc, record_id, consent_choice, clean_data_for_b, choice,
          trigger_payload, calls, log>>

locals == <<record_id, consent_choice, clean_data_for_b, choice, trigger_payload>>

\* A remote call as seen on the wire: the token it was made with, what it
\* asked for, the data it sent and what came back.
Call(token, content, data, outcome, records) ==
    [token |-> token, content |-> content, data |-> data,
     outcome |-> outcome, records |-> records]

\* A finished invocation: the handler, its identifier, the HTTP response
\* and whether the response is Flask's answer to an uncaught exception.
Entry(op, p, rid, status, body, uncaught, cs) ==
    [op |-> op, proc |-> p, rec |-> rid, status |-> status, body |-> body,
     uncaught |-> uncaught, calls |-> cs]

Started == Len(log) + Cardinality({p \in Procs : pc[p] # "idle"})

\* The server hands a request to a free thread; which one is immaterial, so
\* the threads are taken in a fixed order.
ThreadOrder == <<"w1", "w2">>
Free(p) ==
    /\ pc[p] = "idle"
    /\ \A i, j \in 1..Len(ThreadOrder) :
          (ThreadOrder[j] = p /\ i < j) => pc[ThreadOrder[i]] # "idle"

Init ==
    /\ store \in {[t \in Tokens |-> IF t = API_TOKEN_A THEN a ELSE b] :
                    a \in SourceProjects, b \in TargetProjects}
    /\ pc = [p \in Procs |-> "idle"]
    /\ record_id = [p \in Procs |-> None]
    /\ consent_choice = [p \in Procs |-> None]
    /\ clean_data_for_b = [p \in Procs |-> EmptyDict]
    /\ choice = [p \in Procs |-> None]
    /\ trigger_payload = [p \in Procs |-> EmptyDict]
    /\ calls = [p \in Procs |-> <<>>]
    /\ log = <<>>

\* The handler returns: the response is logged and the thread is free again.
Return(p, op, rid, status, body, uncaught, cs) ==
    /\ log' = Append(log, Entry(op, p, rid, status, body, uncaught, cs))
    /\ pc' = [pc EXCEPT ![p] = "idle"]
    /\ calls' = [calls EXCEPT ![p] = <<>>]
    /\ record_id' = [record_id EXCEPT ![p] = None]
    /\ consent_choice' = [consent_choice EXCEPT ![p] = None]
    /\ clean_data_for_b' = [clean_data_for_b EXCEPT ![p] = EmptyDict]
    /\ choice' = [choice EXCEPT ![p] = None]
    /\ trigger_payload' = [trigger_payload EXCEPT ![p] = EmptyDict]

\* ------------------------------------------------------- the wire (requests)

\* requests.post(REDCAP_API_URL, data=payload) for a record export: the
\* token of the payload selects the project that answers.
PostExport(payload) == ExportRecords(store[payload.token], payload.records0)

\* requests.post(REDCAP_API_URL, data=payload) for a record import that the
\* server accepts: the token of the payload selects the project written.
PostImport(payload) ==
    [store EXCEPT ![payload.token] =
        ImportRecord(@, payload.data, payload.overwriteBehavior)]

\* ----------------------------------------------------------- transfer_data

\* Mutant: the export is made with the token of Project B.
export_payload_TokenB(rid) ==
    [token |-> API_TOKEN_B, content |-> "record", records0 |-> rid]

export_payload(rid) ==
    [token |-> API_TOKEN_A, content |-> "record", records0 |-> rid]

\* Mutant: the whole Source record is sent on, with the status markers added.
CleanDataForB_CopiesRecord(rid, data_from_a, consent) ==
    LET markers == {"trace_ai_eligibility_screening_draft_complete",
                    "record_set_up_complete"}
    IN  [k \in (DOMAIN data_from_a) \cup {"interested_consent"} \cup markers |->
            CASE k \in markers -> "2"
              [] k = "record_id" -> rid
              [] k = "interested_consent" -> consent
              [] OTHER -> data_from_a[k]]

\* Mutant: a transfer also resets the two alert variables of the record.
CleanDataForB_ResetTriggers(rid, data_from_a, consent) ==
    [record_id |-> rid,
     pt_email |-> Get(data_from_a, "pt_email"),
     pt_phone |-> Get(data_from_a, "pt_phone"),
     res_email |-> Get(data_from_a, "res_email"),
     elig_date |-> Get(data_from_a, "elig_date"),
     interested_consent |-> consent,
     trace_ai_eligibility_screening_draft_complete |-> "2",
     record_set_up_complete |-> "2",
     trigger_email |-> "0",
     cons_in_person_email |-> "0"]

\* Mutant: the consent choice is copied like the other fields, without the
\* default and without str().
CleanDataForB_RawConsent(rid, data_from_a, consent) ==
    [record_id |-> rid,
     pt_email |-> Get(data_from_a, "pt_email"),
     pt_phone |-> Get(data_from_a, "pt_phone"),
     res_email |-> Get(data_from_a, "res_email"),
     elig_date |-> Get(data_from_a, "elig_date"),
     interested_consent |-> Get(data_from_a, "interested_consent"),
     trace_ai_eligibility_screening_draft_complete |-> "2",
     record_set_up_complete |-> "2"]

CleanDataForB(rid, data_from_a, consent) ==
    [record_id |-> rid,
     pt_email |-> Get(data_from_a, "pt_email"),
     pt_phone |-> Get(data_from_a, "pt_phone"),
     res_email |-> Get(data_from_a, "res_email"),
     elig_date |-> Get(data_from_a, "elig_date"),
     interested_consent |-> consent,
     trace_ai_eligibility_screening_draft_complete |-> "2",
     record_set_up_complete |-> "2"]

\* Mutant: the import is made with the token of Project A.
import_payload_TokenA(data) ==
    [token |-> API_TOKEN_A, content |-> "record",
     overwriteBehavior |-> "normal", data |-> data]

import_payload(data) ==
    [token |-> API_TOKEN_B, content |-> "record",
     overwriteBehavior |-> "normal", data |-> data]

\* The branch of the page that render_template_string renders.
RenderTemplate(c) ==
    CASE c = "1" -> "Electronic Consent"
      [] c = "2" -> "In-Person Consent"
      [] OTHER -> "Warning: No consent preference was recorded"

\* Mutant: `except ValueError`, which catches a body that is not JSON but
\* not a transport failure.
TransferCatches_ValueErrorOnly(outcome) == outcome = "notjson"

\* Lines 88-89: `except Exception` catches whatever the try block raises:
\* a transport failure, a body that is not JSON, a KeyError on an error
\* object.
TransferCatches(outcome) == outcome \in {"raise", "notjson", "errobject"}

\* Lines 34-71: the identifier check, the export from Project A and the
\* projection of the record.
transfer_data(p, rid) ==
    /\ Free(p)
    /\ Started < MaxCalls
    /\ UNCHANGED store
    /\ IF Falsy(rid)
       THEN Return(p, "transfer", rid, 400, "Error: No record ID provided.",
                   FALSE, <<>>)
       ELSE \E outcome \in ReadOutcomes :
            LET payload == export_payload(rid)
                records == IF outcome = "ok" THEN PostExport(payload) ELSE <<>>
                call    == Call(payload.token, "export",
                                [k \in {"records[0]"} |-> rid], outcome, records)
                consent == str(GetDefault(records[1], "interested_consent", ""))
            IN  IF outcome # "ok"
                THEN IF TransferCatches(outcome)
                     THEN Return(p, "transfer", rid, 500,
                                 "System Error during transfer", FALSE, <<call>>)
                     ELSE Return(p, "transfer", rid, 500,
                                 "Internal Server Error", TRUE, <<call>>)
                ELSE IF Len(records) = 0
                THEN Return(p, "transfer", rid, 404,
                            "Error: Record not found in Project TRACE-AI Prospective Study.",
                            FALSE, <<call>>)
                ELSE /\ pc' = [pc EXCEPT ![p] = "t_import"]
                     /\ record_id' = [record_id EXCEPT ![p] = rid]
                     /\ consent_choice' = [consent_choice EXCEPT ![p] = consent]
                     /\ clean_data_for_b' = [clean_data_for_b EXCEPT ![p] =
                            CleanDataForB(rid, records[1], consent)]
                     /\ calls' = [calls EXCEPT ![p] = <<call>>]
                     /\ UNCHANGED <<choice, trigger_payload, log>>

\* Mutant: a refused import fails the transfer.
TransferImportResponse_FailOnReject(outcome, consent) ==
    IF outcome = "200"
    THEN [status |-> 200, body |-> RenderTemplate(consent)]
    ELSE [status |-> 500, body |-> "System Error during transfer"]

\* What transfer_data answers once the import has come back with a status.
TransferImportResponse(outcome, consent) ==
    [status |-> 200, body |-> RenderTemplate(consent)]

\* Lines 74-126: the import into Project B and the page that is returned.
transfer_data_import(p) ==
    /\ pc[p] = "t_import"
    /\ \E outcome \in WriteOutcomes :
        LET payload == import_payload(clean_data_for_b[p])
            call    == Call(payload.token, "import", payload.data, outcome, <<>>)
            cs      == Append(calls[p], call)
            resp    == TransferImportResponse(outcome, consent_choice[p])
        IN  /\ outcome = "200" => Importable(payload.data)
            /\ store' = IF outcome = "200" THEN PostImport(payload) ELSE store
            /\ IF outcome = "raise"
               THEN Return(p, "transfer", record_id[p], 500,
                           "System Error during transfer", FALSE, cs)
               ELSE Return(p, "transfer", record_id[p], resp.status, resp.body,
                           FALSE, cs)

\* ----------------------------------------------------------- trigger_email

fetch_payload(rid) ==
    [token |-> API_TOKEN_B, content |-> "record", records0 |-> rid]

\* Mutant: the two alert variables are taken for each other.
TriggerPayload_Swapped(rid, c) ==
    CASE c = "1" -> [record_id |-> rid, cons_in_person_email |-> "1"]
      [] c = "2" -> [record_id |-> rid, trigger_email |-> "1"]
      [] OTHER -> [record_id |-> rid]

\* Mutant: both alert variables are set, whatever the choice.
TriggerPayload_Both(rid, c) ==
    [record_id |-> rid, trigger_email |-> "1", cons_in_person_email |-> "1"]

TriggerPayload(rid, c) ==
    CASE c = "1" -> [record_id |-> rid, trigger_email |-> "1"]
      [] c = "2" -> [record_id |-> rid, cons_in_person_email |-> "1"]
      [] OTHER -> [record_id |-> rid]

\* The request names no overwriteBehavior, so the API's default applies.
update_payload(data) ==
    [token |-> API_TOKEN_B, content |-> "record",
     overwriteBehavior |-> "normal", data |-> data]

\* Mutant: a guard that treats a record whose alert variable is already set
\* as one without a choice.
Choice_Guarded(data) ==
    IF Get(data, "trigger_email") = "1" \/ Get(data, "cons_in_person_email") = "1"
    THEN ""
    ELSE str(GetDefault(data, "interested_consent", ""))

\* Line 154: choice = str(data.get('interested_consent', ''))
Choice(data) == str(GetDefault(data, "interested_consent", ""))

\* Mutant: `if choice:` in place of the comparison with '1' and '2'.
Actionable_Truthy(c) == c # ""

\* Lines 166-176: the choices that lead to an alert; any other choice ends
\* the handler with "No alert needed".
Actionable(c) == c \in {"1", "2"}

\* The exceptions the try block around res.json()[0] lets through: the
\* handler catches IndexError and KeyError only.
Uncaught(outcome) == outcome \in {"notjson"}

\* Lines 135-176: the export from Project B and the choice of the alert.
trigger_email(p, rid) ==
    /\ Free(p)
    /\ Started < MaxCalls
    /\ UNCHANGED store
    /\ \E outcome \in ReadOutcomes :
        LET payload == fetch_payload(rid)
            records == IF outcome = "ok" THEN PostExport(payload) ELSE <<>>
            call    == Call(payload.token, "export",
                            [k \in {"records[0]"} |-> rid], outcome, records)
            c       == Choice(records[1])
        IN  IF outcome = "raise" \/ Uncaught(outcome)
            THEN Return(p, "dispatch", rid, 500, "Internal Server Error",
                        TRUE, <<call>>)
            ELSE IF outcome = "errobject" \/ Len(records) = 0
            THEN Return(p, "dispatch", rid, 500,
                        "Error: Could not retrieve record details from Project B.",
                        FALSE, <<call>>)
            ELSE IF ~Actionable(c)
            THEN Return(p, "dispatch", rid, 200,
                        "No alert needed for this choice.", FALSE, <<call>>)
            ELSE /\ pc' = [pc EXCEPT ![p] = "d_import"]
                 /\ record_id' = [record_id EXCEPT ![p] = rid]
                 /\ choice' = [choice EXCEPT ![p] = c]
                 /\ trigger_payload' = [trigger_payload EXCEPT ![p] =
                        TriggerPayload(rid, c)]
                 /\ calls' = [calls EXCEPT ![p] = <<call>>]
                 /\ UNCHANGED <<consent_choice, clean_data_for_b, log>>

\* What trigger_email answers once the import has come back with a status.
TriggerImportResponse(outcome) ==
    [status |-> 200, body |-> "Action Complete!"]

\* Lines 181-205: the import of the trigger into Project B and the answer.
trigger_email_import(p) ==
    /\ pc[p] = "d_import"
    /\ \E outcome \in WriteOutcomes :
        LET payload == update_payload(trigger_payload[p])
            call    == Call(payload.token, "import", payload.data, outcome, <<>>)
            cs      == Append(calls[p], call)
            resp    == TriggerImportResponse(outcome)
        IN  /\ outcome = "200" => Importable(payload.data)
            /\ store' = IF outcome = "200" THEN PostImport(payload) ELSE store
            /\ IF outcome = "raise"
               THEN Return(p, "dispatch", record_id[p], 500,
                           "Internal Server Error", TRUE, cs)
               ELSE Return(p, "dispatch", record_id[p], resp.status, resp.body,
                           FALSE, cs)

\* ------------------------------------------------------------ specification

Next ==
    \E p \in Procs :
        \/ \E rid \in RequestIds : transfer_data(p, rid)
        \/ transfer_data_import(p)
        \/ \E rid \in RequestIds : trigger_email(p, rid)
        \/ trigger_email_import(p)

Spec == Init /\ [][Next]_vars

\* The same program started on a Project B that holds no record yet.
InitEmptyTarget == Init /\ store[API_TOKEN_B] = NoRecords

SpecEmptyTarget == InitEmptyTarget /\ [][Next]_vars

\* ------------------------------------------------------------------ claims

Entries == {log[i] : i \in 1..Len(log)}

\* The calls of a finished invocation, by what they asked for.
CallsOf(e, content) ==
    {e.calls[i] : i \in {j \in 1..Len(e.calls) : e.calls[j].content = content}}

NumCalls(e, content) ==
    Cardinality({j \in 1..Len(e.calls) : e.calls[j].content = content})

\* The invocation read a record list and the list was not empty.
Fetched(e) ==
    /\ Len(e.calls) >= 1
    /\ e.calls[1].content = "export"
    /\ e.calls[1].outcome = "ok"
    /\ Len(e.calls[1].records) >= 1

FetchedRecord(e) == e.calls[1].records[1]

\* The outcome of the spec's taxonomy that an HTTP response stands for.
Kind(e) ==
    CASE e.uncaught -> "Crash"
      [] e.op = "transfer" /\ e.status = 400 -> "InvalidRequest"
      [] e.op = "transfer" /\ e.status = 404 -> "NotFound"
      [] e.op = "transfer" /\ e.status = 500 -> "UpstreamUnavailable"
      [] e.op = "transfer" /\ e.status = 200 -> "Transferred"
      [] e.op = "dispatch" /\ e.status = 500 -> "RecordUnavailable"
      [] e.op = "dispatch" /\ e.status = 200
            /\ e.body = "No alert needed for this choice." -> "NoActionTaken"
      [] e.op = "dispatch" /\ e.status = 200
            /\ e.body = "Action Complete!" -> "Dispatched"
      [] OTHER -> "Unknown"

\* The consentState the page of a successful transfer shows, as the QC
\* batch test reads it off the response text.
ConsentState(e) ==
    CASE e.body = "Electronic Consent" -> "electronic"
      [] e.body = "In-Person Consent" -> "in-person"
      [] OTHER -> "unset"

TargetKeys ==
    {"record_id", "pt_email", "pt_phone", "res_email", "elig_date",
     "interested_consent", "trace_ai_eligibility_screening_draft_complete",
     "record_set_up_complete"}

\* C1: every record that transfer sends to Target has exactly the eight
\* allow-listed keys, whatever the Source record carries; both status
\* markers are '2' (complete) and record_id is the requested identifier.
C1_PayloadIsAllowList ==
    \A e \in Entries : e.op = "transfer" =>
        \A c \in CallsOf(e, "import") :
            /\ DOMAIN c.data = TargetKeys
            /\ c.data["trace_ai_eligibility_screening_draft_complete"] = "2"
            /\ c.data["record_set_up_complete"] = "2"
            /\ c.data["record_id"] = e.rec

\* A transfer of a Source record that carries screening data reached the upsert.
C1_Witness ==
    \E e \in Entries :
        /\ e.op = "transfer"
        /\ Fetched(e)
        /\ "dob" \in DOMAIN FetchedRecord(e)
        /\ CallsOf(e, "import") # {}

TriggerKeys == {"trigger_email", "cons_in_person_email"}

\* The trigger fields an update sets to the activate marker '1'.
Activated(data) == {k \in TriggerKeys \cap DOMAIN data : data[k] = "1"}

StoredChoice(e) == str(GetDefault(FetchedRecord(e), "interested_consent", ""))

\* C2: when the Target record read by dispatch has consent '1' or '2',
\* dispatch sends one update and the update activates exactly one trigger
\* field: trigger_email for '1', cons_in_person_email for '2'.
C2_ExactlyOneTrigger ==
    \A e \in Entries :
        (e.op = "dispatch" /\ Fetched(e) /\ StoredChoice(e) \in {"1", "2"}) =>
            /\ NumCalls(e, "import") = 1
            /\ \A c \in CallsOf(e, "import") :
                /\ DOMAIN c.data \cap TriggerKeys =
                      (IF StoredChoice(e) = "1" THEN {"trigger_email"}
                       ELSE {"cons_in_person_email"})
                /\ Activated(c.data) = DOMAIN c.data \cap TriggerKeys

\* Both branches were dispatched in one behaviour.
C2_Witness ==
    /\ \E e \in Entries :
        e.op = "dispatch" /\ Fetched(e) /\ StoredChoice(e) = "1"
            /\ NumCalls(e, "import") = 1
    /\ \E e \in Entries :
        e.op = "dispatch" /\ Fetched(e) /\ StoredChoice(e) = "2"
            /\ NumCalls(e, "import") = 1

\* C3: when the Target record read by dispatch has no consent or a consent
\* other than '1' and '2', dispatch answers 200 'No alert needed' from the
\* handler itself and makes no write call.
C3_NoActionTaken ==
    \A e \in Entries :
        (e.op = "dispatch" /\ Fetched(e) /\ StoredChoice(e) \notin {"1", "2"}) =>
            /\ Kind(e) = "NoActionTaken"
            /\ e.status = 200
            /\ NumCalls(e, "import") = 0

\* A dispatch found a record without the consent field, and another found
\* a record whose consent is outside '1' and '2'.
C3_Witness ==
    /\ \E e \in Entries :
        e.op = "dispatch" /\ Fetched(e)
            /\ "interested_consent" \notin DOMAIN FetchedRecord(e)
    /\ \E e \in Entries :
        e.op = "dispatch" /\ Fetched(e)
            /\ "interested_consent" \in DOMAIN FetchedRecord(e)
            /\ StoredChoice(e) \notin {"1", "2"}

\* The step that just finished an invocation, and the invocation.
Finishes == Len(log') = Len(log) + 1
Finished == log'[Len(log')]

\* C4: a transfer of a non-empty id that Source answers with an empty
\* record list ends 404, the Source read is its only remote call, and the
\* step leaves both projects as they were.
C4_NotFoundNoTargetCall ==
    [][(/\ Finishes
        /\ Finished.op = "transfer"
        /\ ~Falsy(Finished.rec)
        /\ Finished.rec \notin DOMAIN store[API_TOKEN_A]
        /\ Len(Finished.calls) >= 1
        /\ Finished.calls[1].outcome = "ok")
       => (/\ Kind(Finished) = "NotFound"
           /\ Finished.status = 404
           /\ Len(Finished.calls) = 1
           /\ \A i \in 1..Len(Finished.calls) :
                 Finished.calls[i].token # API_TOKEN_B
           /\ store' = store)]_vars

\* A transfer of an id that Source lacks ended, while Target holds that id.
C4_Witness ==
    \E e \in Entries :
        /\ e.op = "transfer"
        /\ e.rec \in DOMAIN store[API_TOKEN_B]
        /\ e.rec \notin DOMAIN store[API_TOKEN_A]
        /\ Len(e.calls) = 1
        /\ e.calls[1].outcome = "ok"
        /\ e.status = 404

\* C5: transfer without an id, or with the empty id, ends 400 without any
\* remote call.
C5_InvalidRequestNoCalls ==
    \A e \in Entries :
        (e.op = "transfer" /\ (e.rec = None \/ e.rec = "")) =>
            /\ Kind(e) = "InvalidRequest"
            /\ e.status = 400
            /\ e.calls = <<>>

\* Both a transfer without an id and one with the empty id have ended.
C5_Witness ==
    /\ \E e \in Entries : e.op = "transfer" /\ e.rec = None /\ e.status = 400
    /\ \E e \in Entries : e.op = "transfer" /\ e.rec = "" /\ e.status = 400

\* The consent choice of the record Source answered with, in string form;
\* the empty string when the record has no such field.
SourceChoice(e) ==
    IF "interested_consent" \in DOMAIN FetchedRecord(e)
    THEN FetchedRecord(e)["interested_consent"]
    ELSE ""

ExpectedState(v) ==
    CASE v = "1" -> "electronic"
      [] v = "2" -> "in-person"
      [] OTHER -> "unset"

\* C6: for a Source record that transfer found, the consent written to
\* Target is the Source value as a string, '' when the field is absent and
\* never null; a transfer that ends 200 shows the state of that value:
\* electronic for '1', in-person for '2', unset otherwise.
C6_ConsentStateAndCoercion ==
    \A e \in Entries : (e.op = "transfer" /\ Fetched(e)) =>
        /\ NumCalls(e, "import") = 1
        /\ \A c \in CallsOf(e, "import") :
            /\ c.data["interested_consent"] = SourceChoice(e)
            /\ c.data["interested_consent"] # None
        /\ e.status = 200 => ConsentState(e) = ExpectedState(SourceChoice(e))

\* A transfer of a Source record without the consent field ended 200.
C6_Witness ==
    \E e \in Entries :
        /\ e.op = "transfer"
        /\ Fetched(e)
        /\ "interested_consent" \notin DOMAIN FetchedRecord(e)
        /\ e.status = 200
        /\ ConsentState(e) = "unset"

\* C7: a transfer whose upsert is answered with a non-2xx status ends 200
\* with the consentState of the Source record, as an accepted one does, and
\* has made the one write call only.
C7_RejectedUpsertStillSucceeds ==
    \A e \in Entries :
        (e.op = "transfer" /\ \E c \in CallsOf(e, "import") : c.outcome = "400") =>
            /\ Kind(e) = "Transferred"
            /\ e.status = 200
            /\ ConsentState(e) = ExpectedState(SourceChoice(e))
            /\ NumCalls(e, "import") = 1

\* A transfer of an electronic-consent record ended after Target refused
\* the upsert, and Target's record was not written.
C7_Witness ==
    \E e \in Entries :
        /\ e.op = "transfer"
        /\ Fetched(e)
        /\ SourceChoice(e) = "1"
        /\ \E c \in CallsOf(e, "import") : c.outcome = "400"
        /\ e.status = 200
        /\ e.rec \notin DOMAIN store[API_TOKEN_B]

\* C8: a dispatch whose update is answered with a non-2xx status ends in
\* an outcome other than Dispatched, and has made the one write call only.
C8_RejectedUpdateIsDispatchFailed ==
    \A e \in Entries :
        (e.op = "dispatch" /\ \E c \in CallsOf(e, "import") : c.outcome = "400") =>
            /\ Kind(e) # "Dispatched"
            /\ NumCalls(e, "import") = 1

\* C9: a dispatch whose Target read comes back unparsable, or parsable
\* without a record, ends with the handler's own 500 answer (RecordUnavailable)
\* and makes no write call.
C9_UnreadableIsRecordUnavailable ==
    \A e \in Entries :
        (/\ e.op = "dispatch"
         /\ Len(e.calls) >= 1
         /\ \/ e.calls[1].outcome \in {"notjson", "errobject"}
            \/ e.calls[1].outcome = "ok" /\ Len(e.calls[1].records) = 0) =>
            /\ Kind(e) = "RecordUnavailable"
            /\ e.status = 500
            /\ NumCalls(e, "import") = 0

\* C10: no invocation whose remote call failed at transport level ends
\* with an uncaught exception; each ends in a typed outcome.
C10_NoUnstructuredCrash ==
    \A e \in Entries :
        (\E i \in 1..Len(e.calls) : e.calls[i].outcome = "raise") =>
            /\ ~e.uncaught
            /\ Kind(e) \in {"InvalidRequest", "NotFound", "RecordUnavailable",
                            "UpstreamUnavailable", "DispatchFailed"}

\* C11: a transfer whose Source read fails at transport level ends with
\* the handler's 500 answer (UpstreamUnavailable); the read is its only
\* remote call, so nothing is written to Target.
C11_SourceReadFailure ==
    \A e \in Entries :
        (e.op = "transfer" /\ Len(e.calls) >= 1 /\ e.calls[1].outcome = "raise") =>
            /\ Kind(e) = "UpstreamUnavailable"
            /\ e.status = 500
            /\ Len(e.calls) = 1
            /\ NumCalls(e, "import") = 0

\* A transfer of a record that Source holds ended after its read raised.
C11_Witness ==
    \E e \in Entries :
        /\ e.op = "transfer"
        /\ e.rec \in DOMAIN store[API_TOKEN_A]
        /\ Len(e.calls) = 1
        /\ e.calls[1].token = API_TOKEN_A
        /\ e.calls[1].outcome = "raise"
        /\ e.status = 500

\* C12: on both entry points a missing identifier is answered with 400;
\* 404 is answered only by a transfer whose record Source does not hold;
\* 500 only when a remote call failed or its answer could not be used; and
\* a dispatch that takes no action is answered with 200.
C12_ResponseCodes ==
    \A e \in Entries :
        /\ e.rec = None => e.status = 400
        /\ e.status = 404 =>
              (e.op = "transfer" /\ e.rec \notin DOMAIN store[API_TOKEN_A])
        /\ e.status = 500 =>
              \E i \in 1..Len(e.calls) :
                  \/ e.calls[i].outcome # "ok" /\ e.calls[i].content = "export"
                  \/ e.calls[i].outcome = "raise"
                  \/ Len(e.calls[i].records) = 0 /\ e.calls[i].content = "export"
        /\ e.status \in {200, 400, 404, 500}

\* The transfer before a dispatch on the same thread: the dispatch follows it.
Follows(i, j) == i < j /\ log[i].proc = log[j].proc

AllCallsSucceed(e) ==
    \A k \in 1..Len(e.calls) : e.calls[k].outcome \in {"ok", "200"}

TriggerOf(c) == IF c = "1" THEN "trigger_email" ELSE "cons_in_person_email"

\* C13: when transfer(r) of a Source record with consent '1' or '2' and a
\* following dispatch(r) have all their remote calls succeed, the transfer
\* ended 200 with the consentState of the choice, Target holds record r
\* with both status markers complete, and the dispatch ended Dispatched
\* after setting the trigger field of the choice, which Target now holds.
C13_EndToEnd ==
    \A i, j \in 1..Len(log) :
        (/\ Follows(i, j)
         /\ log[i].op = "transfer" /\ log[j].op = "dispatch"
         /\ log[i].rec = log[j].rec
         /\ Fetched(log[i]) /\ SourceChoice(log[i]) \in {"1", "2"}
         /\ AllCallsSucceed(log[i]) /\ AllCallsSucceed(log[j])) =>
            LET r == log[i].rec
                c == SourceChoice(log[i])
                t == store[API_TOKEN_B]
            IN  /\ log[i].status = 200
                /\ ConsentState(log[i]) = ExpectedState(c)
                /\ r \in DOMAIN t
                /\ t[r]["record_id"] = r
                /\ Get(t[r], "trace_ai_eligibility_screening_draft_complete") = "2"
                /\ Get(t[r], "record_set_up_complete") = "2"
                /\ Kind(log[j]) = "Dispatched"
                /\ NumCalls(log[j], "import") = 1
                /\ \A w \in CallsOf(log[j], "import") :
                      Activated(w.data) = {TriggerOf(c)}
                /\ Get(t[r], TriggerOf(c)) = "1"

\* Scenario A on a Target that held nothing: transfer of an in-person
\* record, then its dispatch.
C13_Witness ==
    /\ Len(log) = 2
    /\ Follows(1, 2)
    /\ log[1].op = "transfer" /\ log[2].op = "dispatch"
    /\ log[1].rec = "42" /\ log[2].rec = "42"
    /\ Fetched(log[1]) /\ SourceChoice(log[1]) = "2"
    /\ AllCallsSucceed(log[1]) /\ AllCallsSucceed(log[2])
    /\ DOMAIN store[API_TOKEN_B] = {"42"}
    /\ store[API_TOKEN_B]["42"]["cons_in_person_email"] = "1"

AllowListed == {"pt_email", "pt_phone", "res_email", "elig_date", "interested_consent"}

\* A field as an export shows it: a field without a value reads as ''.
Shown(d, k) == IF k \in DOMAIN d /\ ~Blank(d[k]) THEN d[k] ELSE ""

\* C14: once transfer(r) has had its upsert accepted, every allow-listed
\* field of Target's record r reads as the Source record holds it,
\* whatever Target held under r before.
C14_RoundTrip ==
    \A e \in Entries :
        (/\ e.op = "transfer"
         /\ Fetched(e)
         /\ \E c \in CallsOf(e, "import") : c.outcome = "200") =>
            /\ e.rec \in DOMAIN store[API_TOKEN_B]
            /\ \A k \in AllowListed :
                  Shown(store[API_TOKEN_B][e.rec], k) = Shown(FetchedRecord(e), k)

\* C15: when a dispatch follows a dispatch of the same id and both read
\* the same consent '1' or '2', each makes its one write call, with the
\* same update, and each ends Dispatched unless its write raised.
C15_DispatchTwice ==
    \A i, j \in 1..Len(log) :
        (/\ Follows(i, j)
         /\ log[i].op = "dispatch" /\ log[j].op = "dispatch"
         /\ log[i].rec = log[j].rec
         /\ Fetched(log[i]) /\ Fetched(log[j])
         /\ StoredChoice(log[i]) \in {"1", "2"}
         /\ StoredChoice(log[j]) = StoredChoice(log[i])) =>
            /\ NumCalls(log[i], "import") = 1
            /\ NumCalls(log[j], "import") = 1
            /\ \A a \in CallsOf(log[i], "import"), b \in CallsOf(log[j], "import") :
                  /\ a.data = b.data
                  /\ a.outcome # "raise" => Kind(log[i]) = "Dispatched"
                  /\ b.outcome # "raise" => Kind(log[j]) = "Dispatched"

\* Two dispatches of record 42 in a row, both accepted by Target: the
\* second read the record with its trigger already set and wrote again.
C15_Witness ==
    /\ Len(log) = 2
    /\ Follows(1, 2)
    /\ log[1].op = "dispatch" /\ log[2].op = "dispatch"
    /\ log[1].rec = "42" /\ log[2].rec = "42"
    /\ AllCallsSucceed(log[1]) /\ AllCallsSucceed(log[2])
    /\ Fetched(log[2])
    /\ FetchedRecord(log[2])["trigger_email"] = "1"
    /\ NumCalls(log[2], "import") = 1
    /\ Kind(log[1]) = "Dispatched" /\ Kind(log[2]) = "Dispatched"

\* The trigger fields of Target's record r that hold the activate marker.
ActiveTriggers(t, r) ==
    IF r \in DOMAIN t THEN Activated(t[r]) ELSE {}

\* C16: a trigger field of a Target record that holds the activate marker
\* still holds it after any step of any transfer or dispatch.
C16_TriggersAppendOnly ==
    [][\A r \in RecordIds :
          ActiveTriggers(store[API_TOKEN_B], r)
              \subseteq ActiveTriggers(store'[API_TOKEN_B], r)]_vars

\* A dispatch set the trigger of record 42, a transfer of 42 was accepted
\* after it, and the trigger is still set.
C16_Witness ==
    /\ Len(log) = 2
    /\ Follows(1, 2)
    /\ log[1].op = "dispatch" /\ log[2].op = "transfer"
    /\ log[1].rec = "42" /\ log[2].rec = "42"
    /\ AllCallsSucceed(log[1]) /\ AllCallsSucceed(log[2])
    /\ NumCalls(log[1], "import") = 1 /\ NumCalls(log[2], "import") = 1
    /\ ActiveTriggers(store[API_TOKEN_B], "42") = {"trigger_email"}

\* The token a call of handler op must carry: Project A's for the export
\* of transfer, Project B's for every other call.
TokenFor(op, content) ==
    IF op = "transfer" /\ content = "export" THEN API_TOKEN_A ELSE API_TOKEN_B

CredentialsInPlace ==
    /\ \A e \in Entries : \A i \in 1..Len(e.calls) :
          e.calls[i].token = TokenFor(e.op, e.calls[i].content)
    /\ \A p \in Procs : \A i \in 1..Len(calls[p]) :
          calls[p][i].token =
              TokenFor(IF pc[p] = "t_import" THEN "transfer" ELSE "dispatch",
                       calls[p][i].content)

\* C17: after every step, each call made so far carries the token of its
\* project (Project A's only on the export of transfer), and the step has
\* left Project A as it was.
C17_CredentialsNeverSwapped ==
    [][CredentialsInPlace' /\ store'[API_TOKEN_A] = store[API_TOKEN_A]]_vars

\* A transfer and a dispatch of record 42 both had their writes accepted.
C17_Witness ==
    /\ \E e \in Entries :
          e.op = "transfer" /\ e.rec = "42" /\ Fetched(e) /\ AllCallsSucceed(e)
              /\ NumCalls(e, "import") = 1
    /\ \E e \in Entries :
          e.op = "dispatch" /\ e.rec = "42" /\ Fetched(e) /\ AllCallsSucceed(e)
              /\ NumCalls(e, "import") = 1
    /\ "42" \in DOMAIN store[API_TOKEN_A]

\* C18: a dispatch that has read an actionable consent can always go on to
\* its write, whatever the other thread is doing, and of two finished
\* dispatches of one id that read the same actionable consent each has
\* made its one write call.
C18_UncoordinatedDispatch ==
    /\ \A p \in Procs : pc[p] = "d_import" => ENABLED trigger_email_import(p)
    /\ \A i, j \in 1..Len(log) :
        (/\ i # j
         /\ log[i].op = "dispatch" /\ log[j].op = "dispatch"
         /\ log[i].rec = log[j].rec
         /\ Fetched(log[i]) /\ Fetched(log[j])
         /\ StoredChoice(log[i]) \in {"1", "2"}
         /\ StoredChoice(log[j]) = StoredChoice(log[i])) =>
            /\ NumCalls(log[i], "import") = 1
            /\ NumCalls(log[j], "import") = 1

\* Two dispatches of record 42 on different threads both read consent '1'
\* with the trigger still unset, so before either write, and both writes
\* were accepted by Target.
C18_Witness ==
    /\ Len(log) = 2
    /\ log[1].proc # log[2].proc
    /\ \A i \in {1, 2} :
        /\ log[i].op = "dispatch"
        /\ log[i].rec = "42"
        /\ Fetched(log[i])
        /\ StoredChoice(log[i]) = "1"
        /\ FetchedRecord(log[i])["trigger_email"] = ""
        /\ NumCalls(log[i], "import") = 1
        /\ AllCallsSucceed(log[i])

\* C19: started on a Target without records, and with Source unchanged, no
\* Target record ever has both trigger fields activated, and an activated
\* trigger is the one of the consent choice the record holds.
C19_TriggerMatchesConsent ==
    \A r \in DOMAIN store[API_TOKEN_B] :
        LET rec == store[API_TOKEN_B][r]
        IN  /\ Cardinality(Activated(rec)) <= 1
            /\ \A k \in Activated(rec) :
                  /\ Get(rec, "interested_consent") \in {"1", "2"}
                  /\ k = TriggerOf(Get(rec, "interested_consent"))

\* A dispatch after the transfer of an in-person record 42 was accepted:
\* the in-person trigger is the one that is set.
C19_Witness ==
    /\ "42" \in DOMAIN store[API_TOKEN_B]
    /\ Activated(store[API_TOKEN_B]["42"]) = {"cons_in_person_email"}
    /\ store[API_TOKEN_B]["42"]["interested_consent"] = "2"

====
